---- MODULE Spec2Model ----
(***************************************************************************)
(* Event-sourced aggregate of eventsourcing/examples/alternative_aggregate4 *)
(* (domainmodel.py): DomainEvent, Aggregate (trigger_event, collect_events, *)
(* projector, the class-level pending-event mapping keyed by id(self),      *)
(* __del__) and Dog (the singledispatch apply handlers).                    *)
(*                                                                         *)
(* An object lives at an address (the value of id(self)); addresses are    *)
(* reused after an object is destroyed.  Variables marked "ghost" record    *)
(* the history of calls: the program never reads them; the model reads them *)
(* to bound a run and to pick the events a caller hands to the projector.   *)
(***************************************************************************)
EXTENDS Integers, Sequences, FiniteSets, TLC

\* ---- bounds of the model ----
MaxAddr == 2      \* addresses id() can return: at most MaxAddr live objects
MaxInst == 3      \* instances created over a run (constructor or projector)
MaxEvents == 3    \* events built over a run (constructors and trigger_event)
MaxUuid == 2      \* values uuid4() returns (fresh, in order)
MaxCalls == 4     \* calls the two threads start on the Dog they share

Addr == 1..MaxAddr
Names == {"Fido"}
Tricks == {"roll over", "play dead"}

VARIABLES
    heap,        \* Addr -> the object at that address, or NoObject
    pending,     \* Aggregate.__pending_events: id(self) -> list of events
    nextUuid,    \* the next value uuid4() returns
    clock,       \* the value datetime.now() returns; every reading is later than the last
    nextInst,    \* ghost: serial number of the next instance created
    triggered,   \* ghost: per instance, the events it appended to its buffer
    collected,   \* ghost: per instance, the lists collect_events returned, concatenated
    result,      \* the last call: what was called, on which object, what it returned
    log,         \* the notification log of the application that stores collected events
    th           \* one Dog shared by two threads: its lists, and where each thread is

vars == <<heap, pending, nextUuid, clock, nextInst, triggered, collected, result,
          log, th>>

\* ---- the aggregate's __dict__ ----
\* The attributes present are d.has; an absent attribute holds its default.
EmptyDict ==
    [has |-> {}, id |-> 0, version |-> 0, created_on |-> 0, name |-> "", tricks |-> <<>>]

\* dict.update(state): the keys of state overwrite, every other key stays.
DictUpdate(d, s) ==
    [has |-> d.has \cup s.has,
     id |-> IF "id" \in s.has THEN s.id ELSE d.id,
     version |-> IF "version" \in s.has THEN s.version ELSE d.version,
     created_on |-> IF "created_on" \in s.has THEN s.created_on ELSE d.created_on,
     name |-> IF "name" \in s.has THEN s.name ELSE d.name,
     tricks |-> IF "tricks" \in s.has THEN s.tricks ELSE d.tricks]

\* ---- events ----
\* kind is the event class: "Registered", "TrickAdded", "Snapshot", or
\* "DomainEvent", a class Dog.apply registers no handler for.  by is ghost: the
\* serial of the instance whose trigger_event or constructor built the event
\* (0: built by nobody, a snapshot).

Event(kind, oid, ver, ts, name, trick, state, by) ==
    [kind |-> kind, originator_id |-> oid, originator_version |-> ver,
     timestamp |-> ts, name |-> name, trick |-> trick, state |-> state, by |-> by]

\* Snapshot.take(aggregate): the aggregate's __dict__ copied into a Snapshot
\* carrying the aggregate's id and version.
SnapshotTake(d, ts) ==
    Event("Snapshot", d.id, d.version, ts, "", "", d, 0)

\* ---- results of calls that can raise ----
Ok(d) == [ok |-> TRUE, d |-> d, err |-> ""]
Raise(d, e) == [ok |-> FALSE, d |-> d, err |-> e]

\* Aggregate.__init__(event)
Aggregate_init(d, event) ==
    [d EXCEPT !.has = @ \cup {"id", "version", "created_on"},
              !.id = event.originator_id,
              !.version = event.originator_version,
              !.created_on = event.timestamp]

\* @apply.register(Registered)
ApplyRegistered(d, event) ==
    Ok([Aggregate_init(d, event) EXCEPT !.has = @ \cup {"name", "tricks"},
                                        !.name = event.name,
                                        !.tricks = <<>>])

\* @apply.register(TrickAdded): self.tricks raises when the attribute is absent
\* (mutant for C16: the trick is put in front of the list)
ApplyTrickAdded_Prepended(d, event) ==
    IF "tricks" \notin d.has
    THEN Raise(d, "AttributeError")
    ELSE Ok([d EXCEPT !.tricks = <<event.trick>> \o @,
                      !.has = @ \cup {"version"},
                      !.version = event.originator_version])

ApplyTrickAdded(d, event) ==
    IF "tricks" \notin d.has
    THEN Raise(d, "AttributeError")
    ELSE Ok([d EXCEPT !.tricks = Append(@, event.trick),
                      !.has = @ \cup {"version"},
                      !.version = event.originator_version])

\* (mutant for C6: the version of the snapshot is not taken over)
ApplySnapshot_VersionKept(d, event) ==
    Ok(DictUpdate(d, [event.state EXCEPT !.has = @ \ {"version"}]))

\* @apply.register(Snapshot)
ApplySnapshot(d, event) == Ok(DictUpdate(d, event.state))

\* the default handler of the singledispatchmethod: its body is the docstring
ApplyDefault(d, event) == Ok(d)

\* Dog.apply: dispatch on the class of the event
Dog_apply(d, event) ==
    CASE event.kind = "Registered" -> ApplyRegistered(d, event)
      [] event.kind = "TrickAdded" -> ApplyTrickAdded(d, event)
      [] event.kind = "Snapshot" -> ApplySnapshot(d, event)
      [] OTHER -> ApplyDefault(d, event)

\* the loop of Aggregate.projector: apply each event in order, stop at a raise
RECURSIVE ApplyAll(_, _)
ApplyAll(d, events) ==
    IF events = <<>> THEN Ok(d)
    ELSE LET r == Dog_apply(d, Head(events))
         IN IF r.ok THEN ApplyAll(r.d, Tail(events)) ELSE r

\* (mutant for C5: the loop is left after the first event)
projector_FirstEventOnly(aggregate, events) ==
    ApplyAll(EmptyDict, IF events = <<>> THEN <<>> ELSE <<Head(events)>>)

\* Aggregate.projector(aggregate, events): the parameter aggregate is
\* rebound to a new object before it is read.
projector(aggregate, events) == ApplyAll(EmptyDict, events)

\* ---- the pending-event mapping (a defaultdict(list)) ----
\* __pending_events[id(self)]: the getter; a missing key reads as [] (and is inserted)
PendingGet(p, a) == IF a \in DOMAIN p THEN p[a] ELSE <<>>
\* __pending_events[id(self)] = v
PendingSet(p, a, v) == [k \in DOMAIN p \cup {a} |-> IF k = a THEN v ELSE p[k]]
\* __del__: pop(id(self)), KeyError swallowed
PendingPop(p, a) == [k \in DOMAIN p \ {a} |-> p[k]]

\* ---- objects ----
\* inst, by and snapshot are ghost: the serial of the instance, whether the
\* constructor ("Dog") or the projector made it, and the originator_version of
\* the snapshot that led the events it was projected from (0: no snapshot).  A
\* free address keeps the serial of the instance that lived there last (0: none).
NoObject == [live |-> FALSE, inst |-> 0, by |-> "", snapshot |-> 0, d |-> EmptyDict]
Object(inst, by, events, d) ==
    [live |-> TRUE, inst |-> inst, by |-> by,
     snapshot |-> IF events # <<>> /\ Head(events).kind = "Snapshot"
                  THEN Head(events).originator_version ELSE 0,
     d |-> d]
Live == {a \in Addr : heap[a].live}
Free == {a \in Addr : ~heap[a].live}
\* self: the address of the object called or returned (0: none); ret: the list
\* collect_events returned; err: the exception that reached the caller.
\* given: the keys of **kwargs the caller of trigger_event passed that
\* trigger_event sets itself.
NoResult ==
    [op |-> "none", self |-> 0, inst |-> 0, ret |-> <<>>, err |-> "", given |-> {}]

\* ghost: the number of events built so far
RECURSIVE Built(_)
Built(i) == IF i = 0 THEN 0 ELSE Len(triggered[i]) + Built(i - 1)

\* ---- a Dog shared by two threads ----
\* A list is an object: th.lists[l] is what the list l holds, th.buf is the
\* list stored under id(self) in the pending-event mapping, th.ref[t] the list
\* thread t holds a reference to, th.ev[t] the event it has built.  Ghost:
\* returned (the lists collect_events returned, with their length at the
\* return), built (the events built, in order), calls, overlapped (a call was
\* started while the other thread was inside one).
Threads == {1, 2}
NoEvent == Event("", 0, 0, 0, "", "", EmptyDict, 0)
\* the state after dog = Dog("Fido"), read at time 0
SharedDog ==
    LET event == Event("Registered", 1, 1, 0, "Fido", "", EmptyDict, 0)
    IN [d |-> Dog_apply(EmptyDict, event).d,
        lists |-> << <<event>> >>,
        buf |-> 1,
        pc |-> [t \in Threads |-> "idle"],
        ev |-> [t \in Threads |-> NoEvent],
        ref |-> [t \in Threads |-> 0],
        clock |-> 1,
        returned |-> <<>>,
        built |-> <<event>>,
        calls |-> 0,
        overlapped |-> FALSE]

Init ==
    /\ heap = [a \in Addr |-> NoObject]
    /\ pending = [a \in {} |-> <<>>]
    /\ nextUuid = 1
    /\ clock = 1
    /\ nextInst = 1
    /\ triggered = [i \in 1..MaxInst |-> <<>>]
    /\ collected = [i \in 1..MaxInst |-> <<>>]
    /\ result = NoResult
    /\ log = <<>>
    /\ th = SharedDog

\* Dog(name): a new object at a free address; the founding event is built,
\* applied and appended to the buffer.
Construct(a, name) ==
    /\ a \in Free
    /\ nextInst <= MaxInst
    /\ nextUuid <= MaxUuid
    /\ Built(MaxInst) < MaxEvents
    /\ LET event == Event("Registered", nextUuid, 1, clock, name, "", EmptyDict, nextInst)
           r == Dog_apply(EmptyDict, event)
       IN /\ heap' = [heap EXCEPT ![a] = Object(nextInst, "Dog", <<>>, r.d)]
          /\ pending' = PendingSet(pending, a, Append(PendingGet(pending, a), event))
          /\ triggered' = [triggered EXCEPT ![nextInst] = Append(@, event)]
          /\ result' = [NoResult EXCEPT !.op = "construct", !.self = a,
                                        !.inst = nextInst]
    /\ nextUuid' = nextUuid + 1
    /\ clock' = clock + 1
    /\ nextInst' = nextInst + 1
    /\ UNCHANGED <<collected, log, th>>

\* Aggregate.trigger_event(event_class, **kwargs) on an object whose __dict__
\* is d: the event built, the __dict__ after apply, and whether the event is
\* appended (it is not when reading self.version or self.id, or apply, raises).
\* (mutant for C2: the version is not counted up)
NextVersion_NotCounted(d) == d.version

NextVersion(d) == d.version + 1

\* kwargs.update(originator_id=..., originator_version=..., timestamp=...):
\* the three keys are set, over whatever the caller passed for them.
\* (mutant for C18: a key the caller passed keeps the caller's value)
KwargsUpdate_CallerWins(kwargs, oid, ver, ts) ==
    [kwargs EXCEPT !.has = @ \cup {"originator_id", "originator_version", "timestamp"},
                   !.originator_id = IF "originator_id" \in kwargs.has THEN @ ELSE oid,
                   !.originator_version = IF "originator_version" \in kwargs.has THEN @ ELSE ver,
                   !.timestamp = IF "timestamp" \in kwargs.has THEN @ ELSE ts]

KwargsUpdate(kwargs, oid, ver, ts) ==
    [kwargs EXCEPT !.has = @ \cup {"originator_id", "originator_version", "timestamp"},
                   !.originator_id = oid,
                   !.originator_version = ver,
                   !.timestamp = ts]

\* (mutant for C12: a missing id or version reads as its default)
trigger_event_AttributeDefaulted(d, kind, kwargs, ts, by) ==
    LET kw == KwargsUpdate(kwargs, d.id, NextVersion(d), ts)
        new_event == Event(kind, kw.originator_id, kw.originator_version,
                           kw.timestamp, kw.name, kw.trick, EmptyDict, by)
        r == Dog_apply(d, new_event)
    IN IF r.ok
       THEN [ok |-> TRUE, d |-> r.d, err |-> "", events |-> <<new_event>>]
       ELSE [ok |-> FALSE, d |-> r.d, err |-> r.err, events |-> <<>>]

trigger_event(d, kind, kwargs, ts, by) ==
    IF "version" \notin d.has \/ "id" \notin d.has
    THEN [ok |-> FALSE, d |-> d, err |-> "AttributeError", events |-> <<>>]
    ELSE LET kw == KwargsUpdate(kwargs, d.id, NextVersion(d), ts)
             new_event == Event(kind, kw.originator_id, kw.originator_version,
                                kw.timestamp, kw.name, kw.trick, EmptyDict, by)
             r == Dog_apply(d, new_event)
         IN IF r.ok
            THEN [ok |-> TRUE, d |-> r.d, err |-> "", events |-> <<new_event>>]
            ELSE [ok |-> FALSE, d |-> r.d, err |-> r.err, events |-> <<>>]

\* **kwargs as the caller passes it: the keys present are has.  A caller
\* passes the payload of the event class alone, or with it values of its own
\* for the three keys trigger_event sets (an id no aggregate has, version 0,
\* time 0).
Kwargs(kind, name, trick, envelope) ==
    [kind |-> kind, name |-> name, trick |-> trick, has |-> envelope,
     originator_id |-> IF "originator_id" \in envelope THEN MaxUuid + 1 ELSE 0,
     originator_version |-> 0,
     timestamp |-> 0]
Envelopes == {{}, {"originator_id", "originator_version", "timestamp"}}

\* the event classes trigger_event is called with, each with its payload
TriggerInputs ==
    {Kwargs("Registered", n, "", env) : n \in Names, env \in Envelopes}
    \cup {Kwargs("TrickAdded", "", t, env) : t \in Tricks, env \in Envelopes}
    \cup {Kwargs("DomainEvent", "", "", env) : env \in Envelopes}

TriggerEvent(a, in) ==
    /\ a \in Live
    /\ Built(MaxInst) < MaxEvents
    /\ LET o == heap[a]
           r == trigger_event(o.d, in.kind, in, clock, o.inst)
       IN /\ heap' = [heap EXCEPT ![a].d = r.d]
          /\ pending' = IF r.ok
                        THEN PendingSet(pending, a, PendingGet(pending, a) \o r.events)
                        ELSE pending
          /\ triggered' = [triggered EXCEPT ![o.inst] = @ \o r.events]
          /\ result' = [NoResult EXCEPT !.op = "trigger_event", !.self = a,
                                        !.inst = o.inst, !.err = r.err,
                                        !.given = in.has]
          /\ clock' = IF "version" \in o.d.has /\ "id" \in o.d.has
                      THEN clock + 1 ELSE clock
    /\ UNCHANGED <<nextUuid, nextInst, collected, log, th>>

\* Aggregate.collect_events(): the list read through the getter is returned
\* and the setter stores a new empty list.
\* (mutant for C3: the list is returned and left in place)
collect_events_NotEmptied(p, a) ==
    [events |-> PendingGet(p, a), pending |-> PendingSet(p, a, PendingGet(p, a))]

collect_events(p, a) ==
    [events |-> PendingGet(p, a), pending |-> PendingSet(p, a, <<>>)]

CollectEvents(a) ==
    /\ a \in Live
    /\ LET r == collect_events(pending, a)
       IN /\ pending' = r.pending
          /\ collected' = [collected EXCEPT ![heap[a].inst] = @ \o r.events]
          /\ result' = [NoResult EXCEPT !.op = "collect_events", !.self = a,
                                        !.inst = heap[a].inst, !.ret = r.events]
    /\ UNCHANGED <<heap, nextUuid, clock, nextInst, triggered, log, th>>

\* Aggregate.__del__ as the last reference to the object goes away
\* (mutant for C4: the entry is left behind)
del_EntryKept(p, a) == p

del(p, a) == PendingPop(p, a)

Destroy(a) ==
    /\ a \in Live
    /\ pending' = del(pending, a)
    /\ heap' = [heap EXCEPT ![a] = [NoObject EXCEPT !.inst = heap[a].inst]]
    /\ result' = [NoResult EXCEPT !.op = "destroy", !.self = a, !.inst = heap[a].inst]
    /\ UNCHANGED <<nextUuid, clock, nextInst, triggered, collected, log, th>>

\* ---- the event sequences handed to the projector ----
\* What a repository hands over: a stretch of the events an instance emitted,
\* or a snapshot of the state after its first k events followed by the rest.
Emitted == {triggered[i] : i \in 1..(nextInst - 1)}
Stretches(E) == {SubSeq(E, i, j) : i \in 1..(Len(E) + 1), j \in 0..Len(E)}
SnapshotAt(E, k) == SnapshotTake(projector(0, SubSeq(E, 1, k)).d, clock)
\* the k for which a snapshot can be taken: replaying the first k events
\* gives an aggregate that has its id and version
SnapshotPoints(E) ==
    {k \in 1..Len(E) : LET r == projector(0, SubSeq(E, 1, k))
                       IN r.ok /\ {"id", "version"} \subseteq r.d.has}
SnapshotLedAt(E, k) == <<SnapshotAt(E, k)>> \o SubSeq(E, k + 1, Len(E))
SnapshotLed(E) == {SnapshotLedAt(E, k) : k \in SnapshotPoints(E)}
ProjectInputs == {<<>>} \cup UNION {Stretches(E) \cup SnapshotLed(E) : E \in Emitted}

\* Dog.projector(seed, events), seed an address or 0 for None.  The new
\* object is made at a free address; when apply raises the object is dropped
\* (its __del__ runs) and the error reaches the caller.
Project(a, seed, events) ==
    /\ a \in Free
    /\ nextInst <= MaxInst
    /\ seed \in Live \cup {0}
    /\ LET r == projector(seed, events)
           call == [NoResult EXCEPT !.op = "projector"]
       IN IF r.ok
          THEN /\ heap' = [heap EXCEPT ![a] = Object(nextInst, "projector", events, r.d)]
               /\ pending' = pending
               /\ nextInst' = nextInst + 1
               /\ result' = [call EXCEPT !.self = a, !.inst = nextInst]
          ELSE /\ heap' = heap
               /\ pending' = del(pending, a)
               /\ nextInst' = nextInst
               /\ result' = [call EXCEPT !.err = r.err]
    /\ UNCHANGED <<nextUuid, clock, triggered, collected, log, th>>

Next ==
    \/ \E a \in Addr, n \in Names : Construct(a, n)
    \/ \E a \in Addr, in \in TriggerInputs : TriggerEvent(a, in)
    \/ \E a \in Addr : CollectEvents(a)
    \/ \E a \in Addr : Destroy(a)
    \/ \E a \in Addr, seed \in Addr \cup {0}, events \in ProjectInputs :
          Project(a, seed, events)

Spec == Init /\ [][Next]_vars

\* ---- apply called directly ----
\* dog.apply(event) by a caller holding a snapshot: the handler runs on the
\* object, no event is built and the buffer is not touched.
Apply(a, event) ==
    /\ a \in Live
    /\ LET r == Dog_apply(heap[a].d, event)
       IN /\ heap' = [heap EXCEPT ![a].d = r.d]
          /\ result' = [NoResult EXCEPT !.op = "apply", !.self = a,
                                        !.inst = heap[a].inst, !.err = r.err]
    /\ UNCHANGED <<pending, nextUuid, clock, nextInst, triggered, collected, log, th>>

\* aggregates constructed, commanded, projected, and handed snapshots
NextApply ==
    \/ \E a \in Addr, n \in Names : Construct(a, n)
    \/ \E a \in Addr, in \in TriggerInputs : TriggerEvent(a, in)
    \/ \E a \in Addr, seed \in Addr \cup {0}, events \in ProjectInputs :
          Project(a, seed, events)
    \/ \E a \in Addr, E \in Emitted :
          \E k \in SnapshotPoints(E) : Apply(a, SnapshotAt(E, k))

SpecApply == Init /\ [][NextApply]_vars

\* ---- the application's notification log ----
\* The recorder gives each stored event the next position, from 1.
Store(l, events) ==
    l \o [j \in 1..Len(events) |-> [id |-> Len(l) + j, event |-> events[j]]]

Min(x, y) == IF x <= y THEN x ELSE y

\* notification_log.select(start, limit): the notifications at positions
\* from start on, in order, and no more than limit of them
select(l, start, limit) ==
    LET from == SelectSeq(l, LAMBDA n : n.id >= start)
    IN SubSeq(from, 1, Min(limit, Len(from)))

\* the application saves an aggregate after a command: the events
\* collect_events returns are stored
Save(a) ==
    /\ a \in Live
    /\ LET r == collect_events(pending, a)
       IN /\ pending' = r.pending
          /\ collected' = [collected EXCEPT ![heap[a].inst] = @ \o r.events]
          /\ log' = Store(log, r.events)
          /\ result' = [NoResult EXCEPT !.op = "save", !.self = a,
                                        !.inst = heap[a].inst, !.ret = r.events]
    /\ UNCHANGED <<heap, nextUuid, clock, nextInst, triggered, th>>

NextLog ==
    \/ \E a \in Addr, n \in Names : Construct(a, n)
    \/ \E a \in Addr, in \in TriggerInputs : TriggerEvent(a, in)
    \/ \E a \in Addr : Save(a)
    \/ \E a \in Addr : Destroy(a)

SpecLog == Init /\ [][NextLog]_vars

\* ---- two threads calling trigger_event and collect_events on one Dog ----
\* Each step is one access to the object or to the pending-event mapping.
Started(t) ==
    [th EXCEPT !.calls = @ + 1,
               !.overlapped = @ \/ \E u \in Threads \ {t} : th.pc[u] # "idle"]

\* trigger_event, next_version = self.version + 1 up to event_class(**kwargs)
TriggerBuild(t, in) ==
    /\ th.pc[t] = "idle"
    /\ th.calls < MaxCalls
    /\ LET kw == KwargsUpdate(in, th.d.id, NextVersion(th.d), th.clock)
           new_event == Event(in.kind, kw.originator_id, kw.originator_version,
                              kw.timestamp, kw.name, kw.trick, EmptyDict, 0)
       IN th' = [Started(t) EXCEPT !.pc[t] = "built",
                                   !.ev[t] = new_event,
                                   !.clock = @ + 1,
                                   !.built = Append(@, new_event)]
    /\ UNCHANGED <<heap, pending, nextUuid, clock, nextInst, triggered, collected,
                   result, log>>

\* self.apply(new_event)
TriggerApply(t) ==
    /\ th.pc[t] = "built"
    /\ th' = [th EXCEPT !.pc[t] = "applied", !.d = Dog_apply(th.d, th.ev[t]).d]
    /\ UNCHANGED <<heap, pending, nextUuid, clock, nextInst, triggered, collected,
                   result, log>>

\* self._pending_events, the getter, in line 62
TriggerGetList(t) ==
    /\ th.pc[t] = "applied"
    /\ th' = [th EXCEPT !.pc[t] = "got", !.ref[t] = th.buf]
    /\ UNCHANGED <<heap, pending, nextUuid, clock, nextInst, triggered, collected,
                   result, log>>

\* .append(new_event) on the list the getter returned
TriggerAppend(t) ==
    /\ th.pc[t] = "got"
    /\ th' = [th EXCEPT !.pc[t] = "idle",
                        !.lists[th.ref[t]] = Append(@, th.ev[t]),
                        !.ev[t] = NoEvent,
                        !.ref[t] = 0]
    /\ UNCHANGED <<heap, pending, nextUuid, clock, nextInst, triggered, collected,
                   result, log>>

\* collect_events, the right-hand side: the getter
CollectRead(t) ==
    /\ th.pc[t] = "idle"
    /\ th.calls < MaxCalls
    /\ th' = [Started(t) EXCEPT !.pc[t] = "read", !.ref[t] = th.buf]
    /\ UNCHANGED <<heap, pending, nextUuid, clock, nextInst, triggered, collected,
                   result, log>>

\* collect_events, the assignment: the setter stores a new empty list
CollectSet(t) ==
    /\ th.pc[t] = "read"
    /\ th' = [th EXCEPT !.pc[t] = "set",
                        !.lists = Append(@, <<>>),
                        !.buf = Len(th.lists) + 1]
    /\ UNCHANGED <<heap, pending, nextUuid, clock, nextInst, triggered, collected,
                   result, log>>

\* return events
CollectReturn(t) ==
    /\ th.pc[t] = "set"
    /\ th' = [th EXCEPT !.pc[t] = "idle",
                        !.returned = Append(@, [list |-> th.ref[t],
                                                len |-> Len(th.lists[th.ref[t]])]),
                        !.ref[t] = 0]
    /\ UNCHANGED <<heap, pending, nextUuid, clock, nextInst, triggered, collected,
                   result, log>>

\* what add_trick passes to trigger_event
AddTrickInputs == {Kwargs("TrickAdded", "", t, {}) : t \in Tricks}

NextThreads ==
    \/ \E t \in Threads, in \in AddTrickInputs : TriggerBuild(t, in)
    \/ \E t \in Threads : TriggerApply(t)
    \/ \E t \in Threads : TriggerGetList(t)
    \/ \E t \in Threads : TriggerAppend(t)
    \/ \E t \in Threads : CollectRead(t)
    \/ \E t \in Threads : CollectSet(t)
    \/ \E t \in Threads : CollectReturn(t)

SpecThreads == Init /\ [][NextThreads]_vars

\* ======================= properties =======================

\* the instances alive that the constructor made
Constructed == {a \in Live : heap[a].by = "Dog"}
\* everything instance i has appended: what its collect_events calls returned,
\* then what is still in its buffer
Returned(a) == collected[heap[a].inst] \o PendingGet(pending, a)
Versions(events) == [j \in 1..Len(events) |-> events[j].originator_version]
IsPrefix(s, t) == Len(s) <= Len(t) /\ s = SubSeq(t, 1, Len(s))
HandledKinds == {"Registered", "TrickAdded"}
OnlyHandled(events) == \A j \in 1..Len(events) : events[j].kind \in HandledKinds

\* C1 (as claimed): for every instance, whatever the kinds trigger_event was
\* called with, the lists collect_events returned, concatenated, are the
\* events in the order triggered; the founding event has originator_version 1
\* and every later event has the version of the event before it plus 1.
C1_CollectedInOrderConsecutive ==
    \A a \in Constructed :
        LET got == collected[heap[a].inst]
        IN /\ IsPrefix(got, triggered[heap[a].inst])
           /\ got # <<>> => got[1].originator_version = 1
           /\ \A j \in 1..(Len(got) - 1) :
                 got[j + 1].originator_version = got[j].originator_version + 1

\* C2 (as claimed): after construction and N successful trigger_event calls
\* the version is N and the events carry the versions 1..N.
C2_VersionIsN ==
    \A a \in Constructed :
        LET N == Len(triggered[heap[a].inst]) - 1
        IN /\ heap[a].d.version = N
           /\ Versions(Returned(a)) = [j \in 1..N |-> j]

\* C2 (amended): after construction and N successful trigger_event calls, all
\* of event classes that have a handler of their own (Registered, TrickAdded),
\* the version is N + 1 and the events collect_events returns carry the
\* versions 1..N+1 in order.
C2_VersionIsNPlus1 ==
    \A a \in Constructed :
        LET N == Len(triggered[heap[a].inst]) - 1
        IN OnlyHandled(triggered[heap[a].inst]) =>
              /\ heap[a].d.version = N + 1
              /\ Versions(Returned(a)) = [j \in 1..(N + 1) |-> j]

C2_Witness ==
    /\ result.op = "collect_events"
    /\ result.self \in Constructed
    /\ OnlyHandled(triggered[result.inst])
    /\ Len(result.ret) = 3
    /\ heap[result.self].d.version = 3

\* C3: collect_events returns every event triggered on the instance since the
\* last collect_events (or since construction) and leaves the buffer empty,
\* so that a second call returns nothing; every event triggered has been
\* returned exactly once or is still in the buffer.
C3_CollectDrains ==
    /\ \A a \in Live : Returned(a) = triggered[heap[a].inst]
    /\ result.op = "collect_events" =>
          /\ PendingGet(pending, result.self) = <<>>
          /\ collected[result.inst] = triggered[result.inst]
          /\ Len(result.ret) <= Len(triggered[result.inst])
          /\ result.ret = SubSeq(triggered[result.inst],
                                  Len(triggered[result.inst]) - Len(result.ret) + 1,
                                  Len(triggered[result.inst]))

\* a second collect_events right after one that returned events
C3_Witness ==
    /\ result.op = "collect_events"
    /\ result.ret = <<>>
    /\ Len(collected[result.inst]) >= 2
    /\ Len(triggered[result.inst]) = Len(collected[result.inst])

\* C4: the buffer of an address holds only events of the instance living
\* there, collect_events returns only events of the instance called, and a
\* newly constructed instance starts with its founding event alone in its
\* buffer, whoever lived at its address before.
C4_InstanceIsolation ==
    /\ \A a \in Live :
          \A j \in 1..Len(PendingGet(pending, a)) : pending[a][j].by = heap[a].inst
    /\ result.op = "collect_events" =>
          \A j \in 1..Len(result.ret) : result.ret[j].by = result.inst
    /\ result.op = "construct" =>
          /\ Len(PendingGet(pending, result.self)) = 1
          /\ pending[result.self][1].by = result.inst
          /\ pending[result.self][1].kind = "Registered"

\* the second instance has just been constructed at the address where the
\* first lived (no address remembers the first any more), and the first was
\* destroyed with events in its buffer
C4_Witness ==
    /\ result.op = "construct"
    /\ result.inst = 2
    /\ \A a \in Addr : heap[a].inst # 1
    /\ collected[1] # triggered[1]

\* C5: projecting, from None, the full list of events a constructed aggregate
\* has emitted gives an aggregate with the __dict__ (id, version, created_on,
\* name, tricks) of the live one.
C5_ReplayEqualsLive ==
    [][\A a \in Addr, b \in Addr :
          (b \in Constructed /\ Project(a, 0, triggered[heap[b].inst]))
          => /\ result'.err = ""
             /\ heap'[result'.self].d = heap[b].d]_vars

\* a projection has just returned the state of a live constructed aggregate
\* that learnt two tricks
C5_Witness ==
    /\ result.op = "projector"
    /\ result.err = ""
    /\ heap[result.self].snapshot = 0
    /\ \E b \in Constructed :
          /\ Len(heap[b].d.tricks) = 2
          /\ heap[result.self].d = heap[b].d

\* C6: for a history E and a k at which a snapshot can be taken, projecting
\* the snapshot of the state after E1..Ek followed by E(k+1)..En gives the
\* state that projecting E gives.
C6_SnapshotEquivalence ==
    [][\A a \in Addr, E \in Emitted :
          \A k \in SnapshotPoints(E) :
             Project(a, 0, SnapshotLedAt(E, k))
             => /\ projector(0, E).ok
                /\ result'.err = ""
                /\ heap'[result'.self].d = projector(0, E).d]_vars

\* a projection from a snapshot and at least one event after it has returned
\* an aggregate with a trick learnt after the snapshot
C6_Witness ==
    /\ result.op = "projector"
    /\ result.err = ""
    /\ heap[result.self].snapshot >= 1
    /\ heap[result.self].d.version > heap[result.self].snapshot
    /\ heap[result.self].d.tricks # <<>>

\* C7 (as claimed): for a history E = E1 \o E2, the projector called with
\* the aggregate projected from E1 as its seed and with E2 returns the state
\* that projecting E from None gives.
C7_BatchingIndependence ==
    [][\A a \in Addr, s \in Addr, E \in Emitted :
          \A k \in 0..Len(E) :
             (/\ s \in Live
              /\ heap[s].by = "projector"
              /\ projector(0, E).ok
              /\ projector(0, SubSeq(E, 1, k)).ok
              /\ heap[s].d = projector(0, SubSeq(E, 1, k)).d
              /\ Project(a, s, SubSeq(E, k + 1, Len(E))))
             => /\ result'.err = ""
                /\ heap'[result'.self].d = projector(0, E).d]_vars

\* C8 (as claimed): the projector called with no events returns its seed,
\* unchanged: the seed aggregate, or None for the seed None.
C8_EmptyReturnsSeed ==
    [][\A a \in Addr, seed \in Addr \cup {0} :
          Project(a, seed, <<>>)
          => /\ result'.err = ""
             /\ result'.self = seed
             /\ seed # 0 => heap'[seed] = heap[seed]]_vars

\* C10: a call of the projector leaves the pending-event mapping as it was,
\* and collect_events on a projected aggregate that has triggered nothing
\* returns the empty list.
C10_ReplayLeavesBuffers ==
    [][/\ result'.op = "projector" => pending' = pending
       /\ \A a \in Addr :
             (/\ a \in Live
              /\ heap[a].by = "projector"
              /\ triggered[heap[a].inst] = <<>>
              /\ CollectEvents(a))
             => result'.ret = <<>>]_vars

\* collect_events on a projected aggregate has returned nothing while another
\* instance has events in its buffer
C10_Witness ==
    /\ result.op = "collect_events"
    /\ heap[result.self].by = "projector"
    /\ heap[result.self].d.tricks # <<>>
    /\ result.ret = <<>>
    /\ \E b \in DOMAIN pending : pending[b] # <<>>

\* the event classes Dog.apply registers a handler for
WithHandler == {"Registered", "TrickAdded", "Snapshot"}
HasUnhandled(events) == \E j \in 1..Len(events) : events[j].kind \notin WithHandler
\* the aggregate has had a founding event (or a snapshot) applied
Initialized(d) == {"id", "version"} \subseteq d.has

\* C11 (as claimed): an event of a class without a registered handler, given
\* to trigger_event on an initialized aggregate or to the projector, makes
\* the call raise; trigger_event then appends nothing to the buffer.
C11_UnhandledKindRaises ==
    [][/\ \A a \in Addr, in \in TriggerInputs :
             (/\ result'.op = "trigger_event"
              /\ result'.self = a
              /\ result'.given = in.has
              /\ a \in Live
              /\ Initialized(heap[a].d)
              /\ in.kind \notin WithHandler
              /\ TriggerEvent(a, in))
             => /\ result'.err # ""
                /\ pending' = pending
       /\ \A a \in Addr, seed \in Addr \cup {0}, events \in ProjectInputs :
             (HasUnhandled(events) /\ Project(a, seed, events))
             => result'.err # ""]_vars

\* C12: trigger_event on an aggregate that has no id or no version (the
\* object the projector returns for no events) raises; no event is built
\* (the clock is not read), nothing is appended and the object is unchanged.
C12_ShellTriggerFails ==
    [][\A a \in Addr, in \in TriggerInputs :
          (/\ result'.op = "trigger_event"
           /\ result'.self = a
           /\ result'.given = in.has
           /\ a \in Live
           /\ ~Initialized(heap[a].d)
           /\ TriggerEvent(a, in))
          => /\ result'.err # ""
             /\ pending' = pending
             /\ triggered' = triggered
             /\ clock' = clock
             /\ heap' = heap]_vars

\* trigger_event has just raised on the object projected from no events
C12_Witness ==
    /\ result.op = "trigger_event"
    /\ result.err = "AttributeError"
    /\ result.self \in Live
    /\ heap[result.self].by = "projector"
    /\ heap[result.self].d = EmptyDict
    /\ triggered[result.inst] = <<>>

\* C13 (as claimed): the version of an aggregate is the originator_version of
\* the event applied to it last, whatever the class of that event; for an
\* aggregate that has triggered events, that is the last event it triggered.
C13_VersionIsLastApplied ==
    \A a \in Live :
        LET E == triggered[heap[a].inst]
        IN E # <<>> => heap[a].d.version = E[Len(E)].originator_version

\* C16: a successful add_trick(t) adds 1 to the version, appends t to the
\* tricks (those before stay, in order), appends one TrickAdded event carrying
\* t to the buffer of the instance and leaves id, name and created_on alone.
C16_AddTrickFrame ==
    [][\A a \in Addr, in \in TriggerInputs :
          (/\ result'.op = "trigger_event"
           /\ result'.self = a
           /\ result'.given = in.has
           /\ a \in Live
           /\ in.kind = "TrickAdded"
           /\ TriggerEvent(a, in)
           /\ result'.err = "")
          => LET d == heap[a].d
                 e == heap'[a].d
                 buf == PendingGet(pending', a)
             IN /\ e.version = d.version + 1
                /\ e.tricks = Append(d.tricks, in.trick)
                /\ Len(buf) = Len(PendingGet(pending, a)) + 1
                /\ SubSeq(buf, 1, Len(buf) - 1) = PendingGet(pending, a)
                /\ buf[Len(buf)].kind = "TrickAdded"
                /\ buf[Len(buf)].trick = in.trick
                /\ e.id = d.id /\ e.name = d.name /\ e.created_on = d.created_on
                /\ e.has = d.has
                /\ \A b \in Addr \ {a} : /\ heap'[b] = heap[b]
                                         /\ PendingGet(pending', b) = PendingGet(pending, b)]_vars

\* the second add_trick on a constructed Dog has just returned
C16_Witness ==
    /\ result.op = "trigger_event"
    /\ result.err = ""
    /\ result.self \in Constructed
    /\ heap[result.self].d.tricks = <<"roll over", "play dead">>
    /\ heap[result.self].d.version = 3
    /\ Len(PendingGet(pending, result.self)) = 3

\* C17: every key of the pending-event mapping is the address of a live
\* object; destroying an object removes its entry and raises nothing.
C17_NoBufferLeak ==
    /\ DOMAIN pending \subseteq Live
    /\ result.op = "destroy" =>
          /\ result.err = ""
          /\ result.self \notin Live => result.self \notin DOMAIN pending

\* an instance has just been destroyed with events in its buffer, while a
\* projected object nobody called is alive
C17_Witness ==
    /\ result.op = "destroy"
    /\ collected[result.inst] # triggered[result.inst]
    /\ \E b \in Live : heap[b].by = "projector" /\ b \notin DOMAIN pending

\* C18: whatever the payload, the keys originator_id, originator_version and
\* timestamp among it or not, the event trigger_event appends carries the id
\* of the aggregate and the version the aggregate had before the call plus 1;
\* every event in the buffer of an instance carries the id of that instance.
C18_EnvelopeImposed ==
    [][/\ \A a \in Addr, in \in TriggerInputs :
             (/\ result'.op = "trigger_event"
              /\ result'.self = a
              /\ result'.given = in.has
              /\ a \in Live
              /\ TriggerEvent(a, in)
              /\ result'.err = "")
             => LET buf == PendingGet(pending', a)
                IN /\ Len(buf) = Len(PendingGet(pending, a)) + 1
                   /\ buf[Len(buf)].originator_id = heap[a].d.id
                   /\ buf[Len(buf)].originator_version = heap[a].d.version + 1
       /\ \A a \in Addr :
             heap'[a].live =>
                \A j \in 1..Len(PendingGet(pending', a)) :
                   pending'[a][j].originator_id = heap'[a].d.id]_vars

\* trigger_event has just appended an event for a payload that came with an
\* originator_id, an originator_version and a timestamp of the caller's
C18_Witness ==
    /\ result.op = "trigger_event"
    /\ result.err = ""
    /\ result.given = {"originator_id", "originator_version", "timestamp"}
    /\ Len(PendingGet(pending, result.self)) >= 2
    /\ heap[result.self].d.tricks # <<>>

\* C15: applying a snapshot to an aggregate, whatever its state (no fields
\* yet, another version, another aggregate's fields), leaves it with exactly
\* the fields of the snapshot's state, and with the snapshot's
\* originator_version as its version.
C15_SnapshotReplacesFields ==
    [][\A a \in Addr, E \in Emitted :
          \A k \in SnapshotPoints(E) :
             (/\ result'.op = "apply"
              /\ result'.self = a
              /\ Apply(a, SnapshotAt(E, k)))
             => /\ result'.err = ""
                /\ heap'[a].d = SnapshotAt(E, k).state
                /\ heap'[a].d.has = SnapshotAt(E, k).state.has
                /\ heap'[a].d.version = SnapshotAt(E, k).originator_version]_vars

\* a constructed Dog that learnt two tricks has just been handed the
\* snapshot taken after its founding event
C15_Witness ==
    /\ result.op = "apply"
    /\ result.err = ""
    /\ result.self \in Constructed
    /\ OnlyHandled(triggered[result.inst])
    /\ Len(triggered[result.inst]) = 3
    /\ heap[result.self].d.version = 1
    /\ heap[result.self].d.tricks = <<>>

\* C14: the log holds one notification for every event stored and no other,
\* at the positions 1, 2, ... in the order the events were collected (per
\* instance the order they were triggered, none twice); select(start, limit)
\* returns the notifications at the positions start..min(start + limit - 1,
\* total), in order, so no more than limit.
C14_NotificationLog ==
    /\ \A j \in 1..Len(log) : log[j].id = j
    /\ \A i \in 1..MaxInst :
          LET mine == SelectSeq(log, LAMBDA n : n.event.by = i)
          IN /\ [j \in 1..Len(mine) |-> mine[j].event] = collected[i]
             /\ IsPrefix(collected[i], triggered[i])
    /\ \A j \in 1..Len(log) : log[j].event.by \in 1..MaxInst
    /\ result.op = "save" =>
          /\ Len(result.ret) <= Len(log)
          /\ \A j \in 1..Len(result.ret) :
                log[Len(log) - Len(result.ret) + j].event = result.ret[j]
    /\ \A start \in 1..(MaxEvents + 1), limit \in 1..(MaxEvents + 1) :
          LET got == select(log, start, limit)
              hi == Min(start + limit - 1, Len(log))
          IN /\ Len(got) <= limit
             /\ Len(got) = IF hi >= start THEN hi - start + 1 ELSE 0
             /\ \A j \in 1..Len(got) : got[j] = log[start + j - 1]

\* a Dog was registered and taught two tricks, each command saved:
\* select(1, 10) returns three notifications
C14_Witness ==
    /\ result.op = "save"
    /\ Len(result.ret) = 1
    /\ Len(select(log, 1, 10)) = 3
    /\ log[1].event.kind = "Registered"
    /\ log[2].event.kind = "TrickAdded"
    /\ log[3].event.kind = "TrickAdded"
    /\ log[3].event.by = log[1].event.by

\* ---- C19 ----
\* the lists a caller can still get at: the one in the mapping, those
\* collect_events returned, and those a running collect_events will return
Reachable ==
    {th.buf} \cup {th.returned[j].list : j \in 1..Len(th.returned)}
             \cup {th.ref[t] : t \in {u \in Threads : th.pc[u] \in {"read", "set"}}}
\* the events appended so far
Appended == {e \in {th.built[j] : j \in 1..Len(th.built)} :
                \A t \in Threads : th.ev[t] # e}
Atomically ==
    \* a list is as collect_events returned it
    /\ \A j \in 1..Len(th.returned) :
          Len(th.lists[th.returned[j].list]) = th.returned[j].len
    \* no list is returned twice
    /\ \A j, k \in 1..Len(th.returned) :
          th.returned[j].list = th.returned[k].list => j = k
    \* an event appended is in a list a caller has or will get
    /\ \A e \in Appended :
          \E l \in Reachable : \E j \in 1..Len(th.lists[l]) : th.lists[l][j] = e
    \* no two events built have the same version
    /\ \A j, k \in 1..Len(th.built) :
          th.built[j].originator_version = th.built[k].originator_version => j = k

\* C19 (as claimed): with the steps of collect_events and trigger_event of
\* two threads interleaved on one Dog, an event triggered is in the list
\* collect_events returns when it returns it, or in the buffer for the next
\* collect_events: no list grows after it was returned, no event is lost,
\* and no two events get the same originator_version.
C19_CollectAtomic == Atomically

\* C19 (amended): the same, for calls that do not overlap: every call on the
\* Dog ends before the next, of either thread, starts.
C19_CollectAtomicSerialized == ~th.overlapped => Atomically

\* add_trick, collect_events, add_trick, collect_events, one after the other:
\* the first list returned holds the founding event and the first trick, the
\* second the second trick
C19_Witness ==
    /\ ~th.overlapped
    /\ th.calls = MaxCalls
    /\ \A t \in Threads : th.pc[t] = "idle"
    /\ Len(th.returned) = 2
    /\ th.returned[1].len = 2
    /\ th.returned[2].len = 1
    /\ th.lists[th.buf] = <<>>
    /\ th.d.version = 3

====
